---- MODULE Spec2Model ----
(***************************************************************************)
(* Model of miniparse-lib: the INI line grammar, the builders, the full    *)
(* parser `parse`, the direct lookup scanner `find`, the data model        *)
(* (IniEntry / IniSection / IniFile) and its Display rendering.            *)
(*                                                                         *)
(* Text is a sequence of one-character strings; "\n" is the line break.    *)
(* Option<T> is modelled as a sequence: None == <<>>, Some(x) == <<x>>.    *)
(***************************************************************************)
EXTENDS Integers, Sequences, FiniteSets, TLC

VARIABLES
    op,              \* which operation produced the current state
    ini_string,      \* the text handed to parse / find
    ini_file,        \* Option<IniFile>: result of parse, or of the builders
    key_to_find,     \* find's key argument
    section_to_find, \* find's section argument (Option<name>)
    found,           \* find's result (Option<value>)
    rendered,        \* IniFile::to_string() of ini_file
    reparsed,        \* Option<IniFile>: parse(rendered)
    line,            \* a single line handed to the two regexes
    kinds            \* how parse and find classified `line`

vars == <<op, ini_string, ini_file, key_to_find, section_to_find, found,
          rendered, reparsed, line, kinds>>

---------------------------------------------------------------------------
(* Bounds *)

MaxLines == 4      \* lines in an input text
MaxLineLen == 3    \* characters in a line handed to the classifier
MaxEntries == 2    \* entries added to one IniSectionBuilder by hand

---------------------------------------------------------------------------
(* Option and small sequence helpers *)

None == <<>>
Some(x) == <<x>>

\* The Unicode White_Space characters: what str::trim strips and what \s
\* matches.  U+0009..U+000D, U+0020, U+0085 and U+00A0 are written as
\* characters; those beyond Latin-1 are written by code point.
WS ==
    {"\t", "\n", "", "\f", "\r", " ", "", " ",
     "U+1680", "U+2000", "U+2001", "U+2002", "U+2003", "U+2004", "U+2005",
     "U+2006", "U+2007", "U+2008", "U+2009", "U+200A", "U+2028", "U+2029",
     "U+202F", "U+205F", "U+3000"}

RECURSIVE Concat(_)
Concat(ss) == IF ss = <<>> THEN <<>> ELSE Head(ss) \o Concat(Tail(ss))

---------------------------------------------------------------------------
(* str::lines and str::trim *)

\* The pieces of a text, each up to and including its "\n" (the last one
\* may have none).
RECURSIVE split_inclusive(_)
split_inclusive(s) ==
    IF s = <<>> THEN <<>>
    ELSE IF \E i \in 1..Len(s) : s[i] = "\n"
    THEN LET p == CHOOSE i \in 1..Len(s) :
                     s[i] = "\n" /\ \A j \in 1..(i - 1) : s[j] # "\n"
         IN <<SubSeq(s, 1, p)>> \o split_inclusive(SubSeq(s, p + 1, Len(s)))
    ELSE <<s>>

\* A piece without its line ending: "\n", or "\r\n".  A "\r" that is not
\* followed by "\n" stays.
strip_line_ending(piece) ==
    IF piece # <<>> /\ piece[Len(piece)] = "\n"
    THEN LET l == SubSeq(piece, 1, Len(piece) - 1)
         IN IF l # <<>> /\ l[Len(l)] = "\r" THEN SubSeq(l, 1, Len(l) - 1) ELSE l
    ELSE piece

\* str::lines: a final line ending does not open a further line.
lines(s) ==
    [i \in 1..Len(split_inclusive(s)) |-> strip_line_ending(split_inclusive(s)[i])]

\* str::trim: drop leading and trailing whitespace.
trim(s) ==
    LET keep == {i \in 1..Len(s) : s[i] \notin WS}
    IN IF keep = {} THEN <<>>
       ELSE SubSeq(s, CHOOSE i \in keep : \A j \in keep : i <= j,
                      CHOOSE i \in keep : \A j \in keep : j <= i)

---------------------------------------------------------------------------
(* The two patterns *)

\* [^=\s]+
IsToken(s) == Len(s) >= 1 /\ \A i \in 1..Len(s) : s[i] \notin WS \cup {"="}

\* ^\s*(?P<key>[^=\s]+)\s*=\s*(?P<value>[^=\s]+)\s*$  -> Option<captures>
KEY_VALUE_REGEX(l) ==
    LET eqs == {p \in 1..Len(l) :
                   /\ l[p] = "="
                   /\ IsToken(trim(SubSeq(l, 1, p - 1)))
                   /\ IsToken(trim(SubSeq(l, p + 1, Len(l))))}
    IN IF eqs = {} THEN None
       ELSE LET p == CHOOSE q \in eqs : TRUE
            IN Some([key |-> trim(SubSeq(l, 1, p - 1)),
                     value |-> trim(SubSeq(l, p + 1, Len(l)))])

\* ^\[(?P<section_name>.+)\]$  -> Option<section_name>
SECTION_HEADER_REGEX(l) ==
    IF /\ Len(l) >= 3
       /\ l[1] = "["
       /\ l[Len(l)] = "]"
       /\ \A i \in 1..Len(l) : l[i] # "\n"
    THEN Some(SubSeq(l, 2, Len(l) - 1))
    ELSE None

---------------------------------------------------------------------------
(* Data model *)

Global == <<"Global">>
Named(name) == <<"Named", name>>

IniEntry(key, value) == [key |-> key, value |-> value]

\* TryFrom<Captures> for IniEntry
IniEntry_try_from(captures) == IniEntry(captures.key, captures.value)

IniSection_default == [entries |-> <<>>]

IniFile_default == [global_section |-> None, sections |-> <<>>]

RECURSIVE find_map(_, _)
find_map(entries, key) ==
    IF entries = <<>> THEN None
    ELSE IF Head(entries).key = key THEN Some(Head(entries).value)
    ELSE find_map(Tail(entries), key)

RECURSIVE find_map_last(_, _)
find_map_last(entries, key) ==
    IF entries = <<>> THEN None
    ELSE IF entries[Len(entries)].key = key
         THEN Some(entries[Len(entries)].value)
    ELSE find_map_last(SubSeq(entries, 1, Len(entries) - 1), key)

\* Mutant: the last matching entry wins.
get_value_by_key_last(section, key) == find_map_last(section.entries, key)

get_value_by_key(section, key) == find_map(section.entries, key)

get_global_section(file) == file.global_section

get_section_by_name(file, name) ==
    IF name \in DOMAIN file.sections THEN Some(file.sections[name]) ELSE None

---------------------------------------------------------------------------
(* Builders *)

IniSectionBuilder_new(id) == [section |-> IniSection_default, id |-> id]

add_entry(builder, entry) ==
    [builder EXCEPT !.section.entries = Append(@, entry)]

add_key_value_pair(builder, key, value) == add_entry(builder, IniEntry(key, value))

IniSectionBuilder_build(builder) == <<builder.id, builder.section>>

IniFileBuilder_new == [ini_file |-> IniFile_default]

\* Mutant: an existing section of that name is kept.
new_section_keep_first(builder, name, section) ==
    IF name \in DOMAIN builder.ini_file.sections THEN builder
    ELSE [builder EXCEPT !.ini_file.sections =
             [n \in (DOMAIN @) \cup {name} |-> IF n = name THEN section ELSE @[n]]]

\* HashMap::insert: a later insert under the same name replaces the section.
new_section(builder, name, section) ==
    [builder EXCEPT !.ini_file.sections =
        [n \in (DOMAIN @) \cup {name} |-> IF n = name THEN section ELSE @[n]]]

set_global_section(builder, section) ==
    [builder EXCEPT !.ini_file.global_section = Some(section)]

IniFileBuilder_build(builder) == builder.ini_file

---------------------------------------------------------------------------
(* Flush rule *)

\* Mutant: an empty global section is installed as well.
add_section_keep_empty_global(ini_file_builder, current_section_builder) ==
    LET built == IniSectionBuilder_build(current_section_builder)
        id == built[1]
        section == built[2]
    IN IF id = Global THEN set_global_section(ini_file_builder, section)
       ELSE new_section(ini_file_builder, id[2], section)

\* Mutant: "skip if empty" applied to named sections too.
add_section_skip_empty_named(ini_file_builder, current_section_builder) ==
    LET built == IniSectionBuilder_build(current_section_builder)
        id == built[1]
        section == built[2]
    IN IF section.entries = <<>> THEN ini_file_builder
       ELSE IF id = Global THEN set_global_section(ini_file_builder, section)
       ELSE new_section(ini_file_builder, id[2], section)

add_section_to_ini_builder(ini_file_builder, current_section_builder) ==
    LET built == IniSectionBuilder_build(current_section_builder)
        id == built[1]
        section == built[2]
    IN IF id = Global /\ section.entries # <<>>
       THEN set_global_section(ini_file_builder, section)
       ELSE IF id[1] = "Named"
       THEN new_section(ini_file_builder, id[2], section)
       ELSE ini_file_builder

---------------------------------------------------------------------------
(* Full parser *)

parse_init ==
    [ini_file_builder |-> IniFileBuilder_new,
     current_section_builder |-> IniSectionBuilder_new(Global)]

\* The order in which parse's loop body tests a trimmed line.
parse_classify(l) ==
    IF l = <<>> THEN "blank"
    ELSE IF KEY_VALUE_REGEX(l) # None THEN "key_value"
    ELSE IF SECTION_HEADER_REGEX(l) # None THEN "section_header"
    ELSE "unparsable"

\* Mutant: an unparsable line ends the current section and falls back to
\* the global accumulator.
parse_line_unparsable_flushes(st, l) ==
    CASE parse_classify(l) = "blank" -> st
      [] parse_classify(l) = "key_value" ->
            [st EXCEPT !.current_section_builder =
                add_entry(@, IniEntry_try_from(KEY_VALUE_REGEX(l)[1]))]
      [] parse_classify(l) = "section_header" ->
            [ini_file_builder |->
                 add_section_to_ini_builder(st.ini_file_builder,
                                            st.current_section_builder),
             current_section_builder |->
                 IniSectionBuilder_new(Named(SECTION_HEADER_REGEX(l)[1]))]
      [] OTHER ->
            [ini_file_builder |->
                 add_section_to_ini_builder(st.ini_file_builder,
                                            st.current_section_builder),
             current_section_builder |-> IniSectionBuilder_new(Global)]

\* One iteration of parse's loop over the trimmed lines.
parse_line(st, l) ==
    CASE parse_classify(l) = "blank" -> st
      [] parse_classify(l) = "key_value" ->
            [st EXCEPT !.current_section_builder =
                add_entry(@, IniEntry_try_from(KEY_VALUE_REGEX(l)[1]))]
      [] parse_classify(l) = "section_header" ->
            [ini_file_builder |->
                 add_section_to_ini_builder(st.ini_file_builder,
                                            st.current_section_builder),
             current_section_builder |->
                 IniSectionBuilder_new(Named(SECTION_HEADER_REGEX(l)[1]))]
      [] OTHER -> st

RECURSIVE parse_loop(_, _)
parse_loop(st, ls) ==
    IF ls = <<>> THEN st ELSE parse_loop(parse_line(st, trim(Head(ls))), Tail(ls))

parse(text) ==
    LET st == parse_loop(parse_init, lines(text))
    IN IniFileBuilder_build(
           add_section_to_ini_builder(st.ini_file_builder,
                                      st.current_section_builder))

---------------------------------------------------------------------------
(* Direct lookup scanner *)

\* The order in which scoped find's loop body tests a trimmed line.
find_classify(l) ==
    IF l = <<>> THEN "blank"
    ELSE IF SECTION_HEADER_REGEX(l) # None THEN "section_header"
    ELSE IF KEY_VALUE_REGEX(l) # None THEN "key_value"
    ELSE "unparsable"

find_init == [section_found |-> FALSE, returned |-> FALSE, value |-> None]

\* Mutant: a further header inside the target section does not end the scan.
find_line_no_early_exit(st, l, key, section) ==
    IF l = <<>> THEN st
    ELSE IF section # None /\ SECTION_HEADER_REGEX(l) # None
    THEN IF SECTION_HEADER_REGEX(l)[1] = section[1]
         THEN [st EXCEPT !.section_found = TRUE]
         ELSE st
    ELSE IF section # None /\ ~st.section_found THEN st
    ELSE IF KEY_VALUE_REGEX(l) # None /\ KEY_VALUE_REGEX(l)[1].key = key
    THEN [st EXCEPT !.returned = TRUE, !.value = Some(KEY_VALUE_REGEX(l)[1].value)]
    ELSE st

\* Mutant: header lines are skipped in unscoped mode too.
find_line_headers_skipped(st, l, key, section) ==
    IF l = <<>> THEN st
    ELSE IF SECTION_HEADER_REGEX(l) # None
    THEN IF section = None THEN st
         ELSE IF st.section_found
         THEN [st EXCEPT !.returned = TRUE, !.value = None]
         ELSE IF SECTION_HEADER_REGEX(l)[1] = section[1]
         THEN [st EXCEPT !.section_found = TRUE]
         ELSE st
    ELSE IF section # None /\ ~st.section_found THEN st
    ELSE IF KEY_VALUE_REGEX(l) # None /\ KEY_VALUE_REGEX(l)[1].key = key
    THEN [st EXCEPT !.returned = TRUE, !.value = Some(KEY_VALUE_REGEX(l)[1].value)]
    ELSE st

\* One iteration of find's loop over the trimmed lines.
find_line(st, l, key, section) ==
    IF l = <<>> THEN st
    ELSE IF section # None /\ SECTION_HEADER_REGEX(l) # None
    THEN IF st.section_found
         THEN [st EXCEPT !.returned = TRUE, !.value = None]
         ELSE IF SECTION_HEADER_REGEX(l)[1] = section[1]
         THEN [st EXCEPT !.section_found = TRUE]
         ELSE st
    ELSE IF section # None /\ ~st.section_found THEN st
    ELSE IF KEY_VALUE_REGEX(l) # None /\ KEY_VALUE_REGEX(l)[1].key = key
    THEN [st EXCEPT !.returned = TRUE, !.value = Some(KEY_VALUE_REGEX(l)[1].value)]
    ELSE st

RECURSIVE find_loop(_, _, _, _)
find_loop(st, ls, key, section) ==
    IF st.returned \/ ls = <<>> THEN st
    ELSE find_loop(find_line(st, trim(Head(ls)), key, section), Tail(ls), key, section)

find(text, key, section) == find_loop(find_init, lines(text), key, section).value

---------------------------------------------------------------------------
(* Display *)

\* Mutant: key and value written in the wrong order.
IniEntry_fmt_swapped(entry) == entry.value \o <<" ", "=", " ">> \o entry.key

\* write!(f, "{} = {}", self.key, self.value)
IniEntry_fmt(entry) == entry.key \o <<" ", "=", " ">> \o entry.value

\* one writeln! per entry
IniSection_fmt(section) ==
    Concat([i \in 1..Len(section.entries) |->
               IniEntry_fmt(section.entries[i]) \o <<"\n">>])

\* `order` is the order in which HashMap::iter yields the sections.
IniFile_fmt(file, order) ==
    (IF get_global_section(file) # None
     THEN IniSection_fmt(get_global_section(file)[1]) \o <<"\n">>
     ELSE <<>>)
    \o Concat([i \in 1..Len(order) |->
                  <<"[">> \o order[i] \o <<"]", "\n">>
                  \o IniSection_fmt(file.sections[order[i]])])

\* The iteration orders HashMap::iter may produce.
IterOrders(file) ==
    LET names == DOMAIN file.sections
        n == Cardinality(names)
    IN {o \in [1..n -> names] : \A i, j \in 1..n : i # j => o[i] # o[j]}

---------------------------------------------------------------------------
(* Inputs *)

\* Raw input lines: blank, key-value (with and without padding, and with a
\* "\r" before the line break), headers (with and without padding), an
\* unparsable line, and a line that both patterns match.
RawLines ==
    { <<" ">>,
      <<"a", "=", "1">>,
      <<" ", "a", " ", "=", " ", "2", " ">>,
      <<"b", "=", "1", "\r">>,
      <<"[", "s", "]">>,
      <<"\f", "[", "t", "]", " ">>,
      <<"x">>,
      <<"[", "a", "=", "1", "]">> }

RECURSIVE join_nl(_)
join_nl(ls) ==
    IF ls = <<>> THEN <<>>
    ELSE IF Len(ls) = 1 THEN ls[1]
    ELSE ls[1] \o <<"\n">> \o join_nl(Tail(ls))

Texts == {join_nl(ls) : ls \in UNION {[1..n -> RawLines] : n \in 0..MaxLines}}

Keys == { <<"a">>, <<"b">>, <<"[", "a">> }

SectionNames == { <<"s">>, <<"t">>, <<"a", "=", "1">> }

\* The section arguments find is called with.
FindSections == { None, Some(<<"s">>), Some(<<"a", "=", "1">>) }

Alphabet == {"[", "]", "=", "a", " ", "\r"}

ClassifierLines == UNION {[1..n -> Alphabet] : n \in 0..MaxLineLen}

\* What the builders are fed by hand.
BuilderPairs == { <<<<"a">>, <<"1">>>>, <<<<"a">>, <<"2">>>> }
BuilderNames == { <<"s">>, <<>> }

RECURSIVE build_section(_, _)
build_section(builder, pairs) ==
    IF pairs = <<>> THEN IniSectionBuilder_build(builder)[2]
    ELSE build_section(add_key_value_pair(builder, Head(pairs)[1], Head(pairs)[2]),
                       Tail(pairs))

BuiltSections ==
    {build_section(IniSectionBuilder_new(Global), ps) :
        ps \in UNION {[1..n -> BuilderPairs] : n \in 0..MaxEntries}}

RECURSIVE build_file(_, _)
build_file(builder, calls) ==
    IF calls = <<>> THEN IniFileBuilder_build(builder)
    ELSE build_file(new_section(builder, Head(calls)[1], Head(calls)[2]), Tail(calls))

---------------------------------------------------------------------------
(* State machine *)

Init ==
    /\ op = "start"
    /\ ini_string = <<>>
    /\ ini_file = None
    /\ key_to_find = <<>>
    /\ section_to_find = None
    /\ found = None
    /\ rendered = <<>>
    /\ reparsed = None
    /\ line = <<>>
    /\ kinds = [by_parse |-> "blank", by_find |-> "blank"]

\* parse(text)
Parse ==
    /\ op = "start"
    /\ \E text \in Texts :
          /\ ini_string' = text
          /\ ini_file' = Some(parse(text))
    /\ op' = "parsed"
    /\ UNCHANGED <<key_to_find, section_to_find, found, rendered, reparsed,
                   line, kinds>>

\* find(text, key, section) on the text that was parsed
Find ==
    /\ op = "parsed"
    /\ \E key \in Keys, section \in FindSections :
          /\ key_to_find' = key
          /\ section_to_find' = section
          /\ found' = find(ini_string, key, section)
    /\ op' = "found"
    /\ UNCHANGED <<ini_string, ini_file, rendered, reparsed, line, kinds>>

\* IniFileBuilder::new() [.set_global_section(..)] {.new_section(..)} .build()
Build ==
    /\ op = "start"
    /\ \E g \in {None} \cup {Some(sec) : sec \in BuiltSections},
          k \in 0..Cardinality(BuilderNames) :
          \E calls \in [1..k -> BuilderNames \X BuiltSections] :
             /\ \A i, j \in 1..k : i # j => calls[i][1] # calls[j][1]
             /\ ini_file' =
                   Some(build_file(IF g = None THEN IniFileBuilder_new
                                   ELSE set_global_section(IniFileBuilder_new, g[1]),
                                   calls))
    /\ op' = "built"
    /\ UNCHANGED <<ini_string, key_to_find, section_to_find, found, rendered,
                   reparsed, line, kinds>>

\* ini_file.to_string()
Render ==
    /\ op \in {"parsed", "built"}
    /\ \E order \in IterOrders(ini_file[1]) :
          rendered' = IniFile_fmt(ini_file[1], order)
    /\ op' = "rendered"
    /\ UNCHANGED <<ini_string, ini_file, key_to_find, section_to_find, found,
                   reparsed, line, kinds>>

\* parse(rendered)
Reparse ==
    /\ op = "rendered"
    /\ reparsed' = Some(parse(rendered))
    /\ op' = "reparsed"
    /\ UNCHANGED <<ini_string, ini_file, key_to_find, section_to_find, found,
                   rendered, line, kinds>>

\* One trimmed line handed to the loop bodies of parse and of scoped find.
Classify ==
    /\ op = "start"
    /\ \E raw \in ClassifierLines :
          /\ line' = trim(raw)
          /\ kinds' = [by_parse |-> parse_classify(trim(raw)),
                       by_find |-> find_classify(trim(raw))]
    /\ op' = "classified"
    /\ UNCHANGED <<ini_string, ini_file, key_to_find, section_to_find, found,
                   rendered, reparsed>>

Next == Parse \/ Find \/ Build \/ Render \/ Reparse \/ Classify

Spec == Init /\ [][Next]_vars

---------------------------------------------------------------------------
(* Vocabulary of the properties, read off the input text *)

\* The trimmed lines of a text, in file order.
TrimmedLines(text) == [i \in 1..Len(lines(text)) |-> trim(lines(text)[i])]

IsKeyValueLine(l) == KEY_VALUE_REGEX(l) # None

\* A line parse treats as a section header.
IsParseHeaderLine(l) == ~IsKeyValueLine(l) /\ SECTION_HEADER_REGEX(l) # None

\* A line scoped find treats as a section header.
IsFindHeaderLine(l) == l # <<>> /\ SECTION_HEADER_REGEX(l) # None

IsSkippedLine(l) ==
    l = <<>> \/ (KEY_VALUE_REGEX(l) = None /\ SECTION_HEADER_REGEX(l) = None)

EntryOfLine(l) ==
    [key |-> KEY_VALUE_REGEX(l)[1].key, value |-> KEY_VALUE_REGEX(l)[1].value]

\* The elements of a set of line numbers, ascending.
Ascending(J) ==
    [k \in 1..Cardinality(J) |->
        CHOOSE j \in J : Cardinality({x \in J : x <= j}) = k]

\* The key-value lines after line i (0: start of input) and before the
\* next line parse treats as a header, as entries in file order.
BodyAfter(L, i) ==
    LET J == {j \in (i + 1)..Len(L) :
                 /\ IsKeyValueLine(L[j])
                 /\ \A m \in (i + 1)..j : ~IsParseHeaderLine(L[m])}
    IN [k \in 1..Cardinality(J) |-> EntryOfLine(L[Ascending(J)[k]])]

\* Line numbers of the lines parse treats as a header named n.
Declarations(L, n) ==
    {i \in 1..Len(L) : IsParseHeaderLine(L[i]) /\ SECTION_HEADER_REGEX(L[i])[1] = n}

DeclaredNames(L) ==
    {SECTION_HEADER_REGEX(L[i])[1] : i \in {j \in 1..Len(L) : IsParseHeaderLine(L[j])}}

Last(J) == CHOOSE j \in J : \A x \in J : x <= j
First(J) == CHOOSE j \in J : \A x \in J : j <= x

SectionsOf(file) ==
    {file.sections[n] : n \in DOMAIN file.sections}
    \cup (IF file.global_section = None THEN {} ELSE {file.global_section[1]})

---------------------------------------------------------------------------
(* C1 *)

\* C1: when a section name is declared by more than one header line,
\* get_section_by_name returns exactly the body of the last declaration
\* (the key-value lines between that header and the next header or end of
\* input, in order); entries of earlier declarations are not in it.
C1_LastDeclarationWins ==
    op = "parsed" =>
        LET L == TrimmedLines(ini_string)
        IN \A n \in DeclaredNames(L) :
              Cardinality(Declarations(L, n)) > 1 =>
                 get_section_by_name(ini_file[1], n)
                    = Some([entries |-> BodyAfter(L, Last(Declarations(L, n)))])

\* A name declared twice, the earlier body non-empty and the last one
\* different from it.
C1_Witness ==
    /\ op = "parsed"
    /\ LET L == TrimmedLines(ini_string)
       IN \E n \in DeclaredNames(L) :
             /\ Cardinality(Declarations(L, n)) > 1
             /\ BodyAfter(L, First(Declarations(L, n))) # <<>>
             /\ BodyAfter(L, First(Declarations(L, n)))
                   # BodyAfter(L, Last(Declarations(L, n)))

---------------------------------------------------------------------------
(* C2 *)

\* C2: get_value_by_key returns the value of the first entry in insertion
\* order whose key equals the queried key, and None exactly when no entry
\* has that key.
C2_FirstEntryWins ==
    op \in {"parsed", "built"} =>
        \A sec \in SectionsOf(ini_file[1]) : \A k \in Keys :
            LET hits == {i \in 1..Len(sec.entries) : sec.entries[i].key = k}
            IN /\ (hits = {}) <=> (get_value_by_key(sec, k) = None)
               /\ hits # {} =>
                     get_value_by_key(sec, k) = Some(sec.entries[First(hits)].value)

\* A section holding two entries with the same key and different values.
C2_Witness ==
    /\ op \in {"parsed", "built"}
    /\ \E sec \in SectionsOf(ini_file[1]) :
          \E i, j \in 1..Len(sec.entries) :
             /\ i < j
             /\ sec.entries[i].key = sec.entries[j].key
             /\ sec.entries[i].value # sec.entries[j].value

---------------------------------------------------------------------------
(* C3 *)

\* C3: get_global_section is None iff no key-value line occurs before the
\* first header line; a global section returned by parse is never empty
\* and holds exactly the leading key-value entries in file order.
C3_GlobalSection ==
    op = "parsed" =>
        LET prologue == BodyAfter(TrimmedLines(ini_string), 0)
            g == get_global_section(ini_file[1])
        IN /\ (g = None) <=> (prologue = <<>>)
           /\ g # None => (g[1].entries # <<>> /\ g[1].entries = prologue)

\* A text with key-value lines, none of them before the first header: the
\* global section is omitted.
C3_Witness ==
    /\ op = "parsed"
    /\ get_global_section(ini_file[1]) = None
    /\ \E i \in 1..Len(TrimmedLines(ini_string)) :
          IsKeyValueLine(TrimmedLines(ini_string)[i])

---------------------------------------------------------------------------
(* C4 *)

\* C4: every line parse treats as a header named n makes
\* get_section_by_name(n) Some, even with no key-value line after it; a
\* name that no header declared gives None.
C4_NamedSectionsInstalled ==
    op = "parsed" =>
        LET L == TrimmedLines(ini_string)
        IN /\ \A n \in DeclaredNames(L) :
                 get_section_by_name(ini_file[1], n) # None
           /\ \A n \in (SectionNames \cup DOMAIN ini_file[1].sections)
                          \ DeclaredNames(L) :
                 get_section_by_name(ini_file[1], n) = None

\* A header with no key-value line before the next header or end of input,
\* installed as an empty section.
C4_Witness ==
    /\ op = "parsed"
    /\ \E n \in DeclaredNames(TrimmedLines(ini_string)) :
          get_section_by_name(ini_file[1], n) = Some([entries |-> <<>>])

---------------------------------------------------------------------------
(* C5 *)

\* Same presence of a global section, same section names, same
\* key -> first-value mapping in every section.
Equivalent(f, g) ==
    LET ks == Keys \cup {e.key : e \in UNION {{sec.entries[i] : i \in 1..Len(sec.entries)} :
                                                 sec \in SectionsOf(f) \cup SectionsOf(g)}}
    IN /\ (get_global_section(f) = None) <=> (get_global_section(g) = None)
       /\ get_global_section(f) # None /\ get_global_section(g) # None =>
             \A k \in ks : get_value_by_key(get_global_section(f)[1], k)
                              = get_value_by_key(get_global_section(g)[1], k)
       /\ DOMAIN f.sections = DOMAIN g.sections
       /\ \A n \in (DOMAIN f.sections) \cap (DOMAIN g.sections) : \A k \in ks :
             get_value_by_key(f.sections[n], k) = get_value_by_key(g.sections[n], k)

\* What a File returned by parse always satisfies: keys and values are
\* non-empty runs without "=" or whitespace, every name n is non-empty and
\* "[n]" is a line parse treats as a header, and a global section that is
\* present has at least one entry.
WellFormed(f) ==
    /\ \A sec \in SectionsOf(f) : \A i \in 1..Len(sec.entries) :
          IsToken(sec.entries[i].key) /\ IsToken(sec.entries[i].value)
    /\ \A n \in DOMAIN f.sections :
          /\ IsParseHeaderLine(<<"[">> \o n \o <<"]">>)
          /\ SECTION_HEADER_REGEX(<<"[">> \o n \o <<"]">>) = Some(n)
    /\ get_global_section(f) # None => get_global_section(f)[1].entries # <<>>

\* C5 (as stated): for every built File, parsed or assembled with the
\* builders, parse(render(F)) is equivalent to F.
C5_RoundTripEveryFile ==
    op = "reparsed" => Equivalent(ini_file[1], reparsed[1])

\* C5 (amended): parse(render(F)) is equivalent to F for every File
\* returned by parse, and for every builder-assembled File that is
\* well-formed in the sense above; every File returned by parse is
\* well-formed.
C5_RoundTripWellFormed ==
    /\ op = "parsed" => WellFormed(ini_file[1])
    /\ op = "reparsed" /\ WellFormed(ini_file[1]) =>
          Equivalent(ini_file[1], reparsed[1])

\* A well-formed File with a global section and two named sections, one of
\* them non-empty, rendered and parsed again.
C5_Witness ==
    /\ op = "reparsed"
    /\ WellFormed(ini_file[1])
    /\ get_global_section(ini_file[1]) # None
    /\ Cardinality(DOMAIN ini_file[1].sections) = 2
    /\ \E n \in DOMAIN ini_file[1].sections : ini_file[1].sections[n].entries # <<>>

---------------------------------------------------------------------------
(* C6 *)

\* The answer the scoped-search rule gives: the first key-value line with
\* key k strictly between the first header line named s and the next header
\* line of any name (or end of input).
ScopedAnswer(L, k, s) ==
    LET starts == {i \in 1..Len(L) :
                      IsFindHeaderLine(L[i]) /\ SECTION_HEADER_REGEX(L[i])[1] = s}
    IN IF starts = {} THEN None
       ELSE LET from == First(starts)
                later == {i \in (from + 1)..Len(L) : IsFindHeaderLine(L[i])}
                upto == IF later = {} THEN Len(L) + 1 ELSE First(later)
                hits == {j \in (from + 1)..(upto - 1) :
                            IsKeyValueLine(L[j]) /\ EntryOfLine(L[j]).key = k}
            IN IF hits = {} THEN None ELSE Some(EntryOfLine(L[First(hits)]).value)

\* C6: find(text, k, Some(s)) returns the value of the first key-value line
\* with key k between the first header line named s and the next header
\* line of any name (or end of input), and "not found" otherwise; lines of
\* the global prologue, of other sections and after that next header are
\* never returned.
C6_ScopedFind ==
    op = "found" /\ section_to_find # None =>
        found = ScopedAnswer(TrimmedLines(ini_string), key_to_find, section_to_find[1])

\* The target section was entered, a further header ended it, and a
\* key-value line with the key follows that header: "not found".
C6_Witness ==
    /\ op = "found"
    /\ section_to_find # None
    /\ found = None
    /\ LET L == TrimmedLines(ini_string)
       IN \E i, j, m \in 1..Len(L) :
             /\ i < j /\ j < m
             /\ IsFindHeaderLine(L[i])
             /\ SECTION_HEADER_REGEX(L[i])[1] = section_to_find[1]
             /\ IsFindHeaderLine(L[j])
             /\ IsKeyValueLine(L[m])
             /\ EntryOfLine(L[m]).key = key_to_find

---------------------------------------------------------------------------
(* C7 *)

\* C7: find(text, k, None) returns the value of the first key-value line in
\* file order whose key is k, wherever it sits, and "not found" exactly when
\* no key-value line has key k; header lines play no part.
C7_UnscopedFind ==
    op = "found" /\ section_to_find = None =>
        LET L == TrimmedLines(ini_string)
            hits == {j \in 1..Len(L) :
                        IsKeyValueLine(L[j]) /\ EntryOfLine(L[j]).key = key_to_find}
        IN /\ (found = None) <=> (hits = {})
           /\ hits # {} => found = Some(EntryOfLine(L[First(hits)]).value)

\* An unscoped query answered from a key-value line that sits after a
\* header line.
C7_Witness ==
    /\ op = "found"
    /\ section_to_find = None
    /\ found # None
    /\ LET L == TrimmedLines(ini_string)
           hits == {j \in 1..Len(L) :
                       IsKeyValueLine(L[j]) /\ EntryOfLine(L[j]).key = key_to_find}
       IN \E i \in 1..Len(L) : i < First(hits) /\ SECTION_HEADER_REGEX(L[i]) # None

---------------------------------------------------------------------------
(* C8 *)

\* The text with every blank line and every line matching neither pattern
\* removed.
WithoutSkippedLines(text) ==
    LET ls == lines(text)
        J == {i \in 1..Len(ls) : ~IsSkippedLine(trim(ls[i]))}
    IN join_nl([k \in 1..Cardinality(J) |-> ls[Ascending(J)[k]]])

\* C8: parse returns the same File as parsing the text with every blank
\* and every unparsable line removed.
C8_SkippedLinesChangeNothing ==
    op = "parsed" => ini_file[1] = parse(WithoutSkippedLines(ini_string))

\* An unparsable line inside a named section, followed by a key-value line.
C8_Witness ==
    /\ op = "parsed"
    /\ LET L == TrimmedLines(ini_string)
       IN \E i, j, m \in 1..Len(L) :
             /\ i < j /\ j < m
             /\ IsParseHeaderLine(L[i])
             /\ L[j] # <<>> /\ IsSkippedLine(L[j])
             /\ IsKeyValueLine(L[m])

---------------------------------------------------------------------------
(* C9 *)

\* C9: no trimmed line matches both the key-value and the section-header
\* pattern, and parse and scoped find classify every line identically.
C9_PatternsExclusive ==
    op = "classified" =>
        /\ ~(KEY_VALUE_REGEX(line) # None /\ SECTION_HEADER_REGEX(line) # None)
        /\ kinds.by_parse = kinds.by_find

---------------------------------------------------------------------------
(* C10 *)

\* C10: when every section name is declared by at most one header line and
\* no line matches both patterns, find(text, k, Some(s)) equals
\* parse(text).get_section_by_name(s) followed by get_value_by_key(k), a
\* missing section counting as "not found".
C10_ScopedFindAgreesWithParse ==
    op = "found" /\ section_to_find # None =>
        LET L == TrimmedLines(ini_string)
            sec == get_section_by_name(ini_file[1], section_to_find[1])
        IN (/\ \A i \in 1..Len(L) :
                  ~(IsKeyValueLine(L[i]) /\ SECTION_HEADER_REGEX(L[i]) # None)
            /\ \A i, j \in 1..Len(L) :
                  (/\ i # j
                   /\ SECTION_HEADER_REGEX(L[i]) # None
                   /\ SECTION_HEADER_REGEX(L[j]) # None)
                  => SECTION_HEADER_REGEX(L[i]) # SECTION_HEADER_REGEX(L[j]))
           => found = (IF sec = None THEN None
                       ELSE get_value_by_key(sec[1], key_to_find))

\* A text without doubly-matching lines or repeated names, in which the
\* target section holds the key twice and find returns a value.
C10_Witness ==
    /\ op = "found"
    /\ section_to_find # None
    /\ found # None
    /\ LET L == TrimmedLines(ini_string)
           sec == get_section_by_name(ini_file[1], section_to_find[1])
       IN /\ \A i \in 1..Len(L) :
                ~(IsKeyValueLine(L[i]) /\ SECTION_HEADER_REGEX(L[i]) # None)
          /\ \A i, j \in 1..Len(L) :
                (/\ i # j
                 /\ SECTION_HEADER_REGEX(L[i]) # None
                 /\ SECTION_HEADER_REGEX(L[j]) # None)
                => SECTION_HEADER_REGEX(L[i]) # SECTION_HEADER_REGEX(L[j])
          /\ sec # None
          /\ Cardinality({i \in 1..Len(sec[1].entries) :
                             sec[1].entries[i].key = key_to_find}) > 1

====
